---- MODULE Spec2Model ----
(***************************************************************************)
(* A model of schedule/periods.py (django-schedule): the Period hierarchy  *)
(* (Period, Year, Month, Week, Day), its occurrence retrieval and caching, *)
(* boundary classification, sub-period iteration and sibling navigation.   *)
(*                                                                         *)
(* An instant (a datetime) is an integer number of ticks:                  *)
(*   instant = ordinal * TicksPerDay + tick-of-day                         *)
(* where ordinal is the proleptic Gregorian ordinal of the date, as        *)
(* datetime.date.toordinal() gives it (0001-01-01 is ordinal 1).           *)
(***************************************************************************)
EXTENDS Integers, Sequences, FiniteSets, TLC

VARIABLES
    fdow,           \* schedule.conf.settings.FIRST_DAY_OF_WEEK
    showCancelled,  \* schedule.conf.settings.SHOW_CANCELLED_OCCURRENCES
    store,          \* the occurrences the event/occurrence store holds
    periods,        \* the Period objects constructed so far
    origin,         \* for each Period object, the call that constructed it
    gen,            \* the generator object of a get_periods call
    result          \* what the last operation returned

vars == <<fdow, showCancelled, store, periods, origin, gen, result>>

-----------------------------------------------------------------------------
(* Bounds of the model. *)

\* Instants per day: tick 0 of a day is its midnight.
TicksPerDay == 2
\* The calendar years datetimes may fall in: FirstYear .. FirstYear+NumYears-1.
FirstYear == 2007
NumYears == 2
\* How many Period objects a behaviour constructs.
MaxPeriods == 3
\* How many calls the call counters of a Period count.
MaxCalls == 3
\* How many occurrences the store holds.
MaxStore == 2

LastYear == FirstYear + NumYears - 1

-----------------------------------------------------------------------------
(* datetime arithmetic, as the standard library computes it. *)

IsLeap(y) == (y % 4 = 0) /\ ((y % 100 # 0) \/ (y % 400 = 0))

DaysInMonth(y, m) ==
    IF m = 2 THEN (IF IsLeap(y) THEN 29 ELSE 28)
    ELSE IF m \in {4, 6, 9, 11} THEN 30 ELSE 31

\* Days before January 1st of year y (ordinal of y-01-01 is this plus 1).
DaysBeforeYear(y) ==
    LET p == y - 1 IN 365 * p + (p \div 4) - (p \div 100) + (p \div 400)

RECURSIVE DaysBeforeMonth(_, _)
DaysBeforeMonth(y, m) ==
    IF m = 1 THEN 0 ELSE DaysBeforeMonth(y, m - 1) + DaysInMonth(y, m - 1)

\* datetime.date(y, m, d).toordinal()
ToOrdinal(y, m, d) == DaysBeforeYear(y) + DaysBeforeMonth(y, m) + d

\* datetime.datetime(y, m, d) at midnight, as an instant.
MkDatetime(y, m, d) == ToOrdinal(y, m, d) * TicksPerDay

\* The date part of an instant (datetime.date()) as an ordinal.
DateOf(t) == t \div TicksPerDay

YearOf(t) ==
    CHOOSE y \in (FirstYear - 3)..(LastYear + 3) :
        /\ DaysBeforeYear(y) < DateOf(t)
        /\ DateOf(t) <= DaysBeforeYear(y + 1)

MonthOf(t) ==
    LET y == YearOf(t)
        n == DateOf(t) - DaysBeforeYear(y)
    IN  CHOOSE m \in 1..12 :
            /\ DaysBeforeMonth(y, m) < n
            /\ n <= DaysBeforeMonth(y, m) + DaysInMonth(y, m)

DayOf(t) ==
    DateOf(t) - DaysBeforeYear(YearOf(t)) - DaysBeforeMonth(YearOf(t), MonthOf(t))

\* datetime.isoweekday(): Monday is 1, Sunday is 7.
IsoWeekday(t) == IF DateOf(t) % 7 = 0 THEN 7 ELSE DateOf(t) % 7

\* datetime.timedelta(days=n)
Days(n) == n * TicksPerDay

\* The instants reference dates are drawn from.
MinInstant == MkDatetime(FirstYear, 1, 1)
MaxInstant == MkDatetime(LastYear + 1, 1, 1) - 1
Instants == MinInstant..MaxInstant

\* The datetimes that can be built (datetime.min .. datetime.max): the modelled
\* calendar reaches one year beyond the reference dates on either side.
Representable(t) ==
    MkDatetime(FirstYear - 1, 1, 1) <= t /\ t <= MkDatetime(LastYear + 2, 1, 1)

-----------------------------------------------------------------------------
(* Module constants of periods.py. *)

OCCURRENCE_SPANS == 0
OCCURRENCE_STARTS == 1
OCCURRENCE_ENDS == 2
OCCURRENCE_STARTS_ENDS == 3

MAP_TO_OLD_OCCURRENCE_CLASS ==
    (OCCURRENCE_SPANS :> 2) @@ (OCCURRENCE_STARTS :> 0) @@
    (OCCURRENCE_ENDS :> 3) @@ (OCCURRENCE_STARTS_ENDS :> 1)

USE_NEW_OCCURRENCE_CLASS_VALUES == FALSE

OCCURRENCE_CLASS_CSS_VALUES == <<"spans", "starts", "ends", "starts_ends">>

OCCURRENCE_CLASS_CSS ==
    (OCCURRENCE_SPANS :> OCCURRENCE_CLASS_CSS_VALUES[1]) @@
    (OCCURRENCE_STARTS :> OCCURRENCE_CLASS_CSS_VALUES[2]) @@
    (OCCURRENCE_ENDS :> OCCURRENCE_CLASS_CSS_VALUES[3]) @@
    (OCCURRENCE_STARTS_ENDS :> OCCURRENCE_CLASS_CSS_VALUES[4])

-----------------------------------------------------------------------------
(* Period objects. *)

\* An optional argument or attribute: None, or a value.
None(empty) == [some |-> FALSE, val |-> empty]
Some(v) == [some |-> TRUE, val |-> v]

\* Period.__init__: the attributes a fresh Period has.  attrs holds the names
\* of the attributes set on the object beyond those __init__ always sets; the
\* three n* fields count the calls the object made to its collaborators.
PeriodInit(cls, events, start, end, parent_persisted_occurrences, occurrence_pool) ==
    [ cls |-> cls,
      start |-> start,
      end |-> end,
      events |-> events,
      occurrence_pool |-> occurrence_pool,
      attrs |-> IF parent_persisted_occurrences.some
                THEN {"_persisted_occurrences"} ELSE {},
      _persisted_occurrences |-> parent_persisted_occurrences.val,
      _occurrences |-> <<>>,
      _use_old_occurence_class_values |-> ~USE_NEW_OCCURRENCE_CLASS_VALUES,
      nStoreQueries |-> 0,
      nPoolFilters |-> 0,
      nPersistedQueries |-> 0 ]

\* Year._get_year_range starting the year at the month of the date.
GetYearRangeFromMonth(date) ==
    [start |-> MkDatetime(YearOf(date), MonthOf(date), 1),
     end |-> MkDatetime(YearOf(date) + 1, 1, 1)]

\* Year._get_year_range
GetYearRange(date) ==
    [start |-> MkDatetime(YearOf(date), 1, 1),
     end |-> MkDatetime(YearOf(date) + 1, 1, 1)]

\* Month._get_month_range without the year step of December's end.
GetMonthRangeNoRollover(date) ==
    LET year == YearOf(date)
        month == MonthOf(date)
    IN  [start |-> MkDatetime(year, month, 1),
         end |-> IF month = 12 THEN MkDatetime(year, 1, 1)
                 ELSE MkDatetime(year, month + 1, 1)]

\* Month._get_month_range
GetMonthRange(date) ==
    LET year == YearOf(date)
        month == MonthOf(date)
    IN  [start |-> MkDatetime(year, month, 1),
         end |-> IF month = 12 THEN MkDatetime(year + 1, 1, 1)
                 ELSE MkDatetime(year, month + 1, 1)]

\* Week._get_week_range without the shift to the first day of the week.
GetWeekRangeUnshifted(date) ==
    LET start == DateOf(date) * TicksPerDay
    IN  [start |-> start, end |-> start + Days(7)]

\* Week._get_week_range
GetWeekRange(date) ==
    LET midnight == DateOf(date) * TicksPerDay
        shift_to_fdow == (IsoWeekday(midnight) - fdow) % 7
        start == IF shift_to_fdow > 0 THEN midnight - Days(shift_to_fdow)
                 ELSE midnight
    IN  [start |-> start, end |-> start + Days(7)]

\* Day._get_day_range
GetDayRange(date) ==
    LET start == DateOf(date) * TicksPerDay
    IN  [start |-> start, end |-> start + Days(1)]

Variants == {"Year", "Month", "Week", "Day"}

RangeOf(cls, date) ==
    CASE cls = "Year" -> GetYearRange(date)
      [] cls = "Month" -> GetMonthRange(date)
      [] cls = "Week" -> GetWeekRange(date)
      [] cls = "Day" -> GetDayRange(date)

\* Year.__init__, Month.__init__, Week.__init__, Day.__init__ with a date given.
\* Year.__init__ takes no occurrence pool and passes none on.
NewVariant(cls, events, date, parent_persisted_occurrences, occurrence_pool) ==
    LET r == RangeOf(cls, date)
    IN  PeriodInit(cls, events, r.start, r.end, parent_persisted_occurrences,
                   IF cls = "Year" THEN None(<<>>) ELSE occurrence_pool)

\* The datetimes a variant's constructor builds are all representable.
CanBuild(cls, date) ==
    /\ Representable(date)
    /\ Representable(RangeOf(cls, date).start)
    /\ Representable(RangeOf(cls, date).end)

\* The reference date next_year / next_month / next_week / next_day hands to
\* the sibling's constructor.
NextDate(p) == p.end

\* The reference date prev_year / prev_month / prev_week / prev_day hands to
\* the sibling's constructor.
PrevDate(p) ==
    CASE p.cls = "Year" ->
            MkDatetime(YearOf(p.start) - 1, MonthOf(p.start), DayOf(p.start))
      [] p.cls = "Month" ->
            LET before == p.start - Days(1)
            IN  MkDatetime(YearOf(before), MonthOf(before), 1)
                    + (before % TicksPerDay)
      [] p.cls = "Week" -> p.start - Days(7)
      [] p.cls = "Day" -> p.start - Days(1)

\* next(): a sibling built from the events alone.
NextPeriod(p) == NewVariant(p.cls, p.events, NextDate(p), None({}), None(<<>>))

\* prev(): a sibling built from the events alone.
PrevPeriod(p) == NewVariant(p.cls, p.events, PrevDate(p), None({}), None(<<>>))

-----------------------------------------------------------------------------
(* The event/occurrence store (schedule.models), a collaborator. *)

\* An occurrence: its event, its start and end instants, its cancelled flag.
Occ(event, start, end, cancelled) ==
    [event |-> event, start |-> start, end |-> end, cancelled |-> cancelled]

\* Occurrence ordering: by (start, end) ascending.
OccLess(a, b) == a.start < b.start \/ (a.start = b.start /\ a.end < b.end)

RECURSIVE StoreSelect(_, _, _, _)
\* The occurrences of the event in sequence s that overlap [start, end], in
\* s's order.
StoreSelect(s, event, start, end) ==
    IF s = <<>> THEN <<>>
    ELSE LET o == Head(s)
             rest == StoreSelect(Tail(s), event, start, end)
         IN  IF o.event = event /\ o.start <= end /\ o.end >= start
             THEN <<o>> \o rest ELSE rest

\* event.get_occurrences(start, end): the event's occurrences overlapping
\* [start, end], in the store's order.
EventGetOccurrences(event, start, end) == StoreSelect(store, event, start, end)

\* Occurrence.objects.filter(event__in = events)
PersistedOccurrences(events) ==
    {store[k] : k \in {n \in 1..Len(store) :
                         \E e \in 1..Len(events) : events[e] = store[n].event}}

RECURSIVE Insert(_, _)
\* o put into the sorted sequence s after every element not greater than it.
Insert(o, s) ==
    IF s = <<>> THEN <<o>>
    ELSE IF OccLess(o, Head(s)) THEN <<o>> \o s
    ELSE <<Head(s)>> \o Insert(o, Tail(s))

RECURSIVE Sorted(_)
\* sorted(s): a stable sort by the occurrence ordering.
Sorted(s) ==
    IF s = <<>> THEN <<>>
    ELSE Insert(s[Len(s)], Sorted(SubSeq(s, 1, Len(s) - 1)))

-----------------------------------------------------------------------------
(* Period methods: each is given as the value it returns and, where it sets *)
(* attributes, as the object after the call.                                *)

\* A call counter one higher, counting no further than MaxCalls.
Count(n, by) == IF n + by > MaxCalls THEN MaxCalls ELSE n + by

RECURSIVE QueryEvents(_, _, _)
\* The concatenation of event.get_occurrences(start, end) over the events.
QueryEvents(events, start, end) ==
    IF events = <<>> THEN <<>>
    ELSE EventGetOccurrences(Head(events), start, end)
            \o QueryEvents(Tail(events), start, end)

RECURSIVE FilterPoolOpenStart(_, _, _)
\* The pool filter with an occurrence that ends at the period's start left out.
FilterPoolOpenStart(pool, start, end) ==
    IF pool = <<>> THEN <<>>
    ELSE LET occurrence == Head(pool)
             rest == FilterPoolOpenStart(Tail(pool), start, end)
         IN  IF occurrence.start <= end /\ occurrence.end > start
             THEN <<occurrence>> \o rest ELSE rest

RECURSIVE FilterPool(_, _, _)
\* The loop of _get_sorted_occurrences over the occurrence pool: the pool's
\* occurrences that overlap [start, end], in the pool's order.
FilterPool(pool, start, end) ==
    IF pool = <<>> THEN <<>>
    ELSE LET occurrence == Head(pool)
             rest == FilterPool(Tail(pool), start, end)
         IN  IF occurrence.start <= end /\ occurrence.end >= start
             THEN <<occurrence>> \o rest ELSE rest

\* Period._get_sorted_occurrences returning the store's occurrences as queried.
GetSortedOccurrencesUnsorted(p) ==
    IF p.occurrence_pool.some
    THEN FilterPool(p.occurrence_pool.val, p.start, p.end)
    ELSE QueryEvents(p.events, p.start, p.end)

\* Period._get_sorted_occurrences
GetSortedOccurrences(p) ==
    IF p.occurrence_pool.some
    THEN FilterPool(p.occurrence_pool.val, p.start, p.end)
    ELSE Sorted(QueryEvents(p.events, p.start, p.end))

\* The occurrences property computing its value on every access.
OccurrencesUncached(p) == GetSortedOccurrences(p)

\* hasattr(p, '_occurrences')
Cached(p) == "_occurrences" \in p.attrs

\* Period.cached_get_sorted_occurrences (the occurrences property): the value.
Occurrences(p) ==
    IF Cached(p) THEN p._occurrences
    ELSE GetSortedOccurrences(p)

\* Period.cached_get_sorted_occurrences: the object after the call.
AfterOccurrences(p) ==
    IF Cached(p) THEN p
    ELSE [p EXCEPT !._occurrences = GetSortedOccurrences(p),
                   !.attrs = @ \cup {"_occurrences"},
                   !.nStoreQueries =
                       IF p.occurrence_pool.some THEN @
                       ELSE Count(@, Len(p.events)),
                   !.nPoolFilters =
                       IF p.occurrence_pool.some THEN Count(@, 1) ELSE @]

\* Period.get_persisted_occurrences: the value.  The attribute it looks for
\* is spelled "_persisted_occurrenes", which no code sets.
GetPersistedOccurrences(p) ==
    IF "_persisted_occurrenes" \in p.attrs THEN p._persisted_occurrences
    ELSE PersistedOccurrences(p.events)

\* Period.get_persisted_occurrences: the object after the call.
AfterGetPersistedOccurrences(p) ==
    IF "_persisted_occurrenes" \in p.attrs THEN p
    ELSE [p EXCEPT !._persisted_occurrences = PersistedOccurrences(p.events),
                   !.attrs = @ \cup {"_persisted_occurrences"},
                   !.nPersistedQueries = Count(@, 1)]

\* Period.classify_occurrence with the "ends in the period" test closed at the
\* period's end.
ClassifyOccurrenceEndClosed(p, occurrence) ==
    IF occurrence.cancelled /\ ~showCancelled THEN None(<<>>)
    ELSE IF occurrence.start > p.end \/ occurrence.end < p.start THEN None(<<>>)
    ELSE LET starts == IF occurrence.start >= p.start /\ occurrence.start < p.end
                       THEN OCCURRENCE_STARTS ELSE 0
             ends == IF occurrence.end >= p.start /\ occurrence.end <= p.end
                     THEN OCCURRENCE_ENDS ELSE 0
             new_class == OCCURRENCE_SPANS + starts + ends
             occurrence_class ==
                 IF p._use_old_occurence_class_values
                 THEN MAP_TO_OLD_OCCURRENCE_CLASS[new_class] ELSE new_class
         IN  Some([ occurrence |-> occurrence,
                    class |-> occurrence_class,
                    css_class |-> OCCURRENCE_CLASS_CSS[new_class],
                    spans |-> occurrence_class = OCCURRENCE_SPANS,
                    only_starts |-> occurrence_class = OCCURRENCE_STARTS,
                    only_ends |-> occurrence_class = OCCURRENCE_ENDS,
                    starts_ends |-> occurrence_class = OCCURRENCE_STARTS_ENDS ])

\* Period.classify_occurrence
ClassifyOccurrence(p, occurrence) ==
    IF occurrence.cancelled /\ ~showCancelled THEN None(<<>>)
    ELSE IF occurrence.start > p.end \/ occurrence.end < p.start THEN None(<<>>)
    ELSE LET starts == IF occurrence.start >= p.start /\ occurrence.start < p.end
                       THEN OCCURRENCE_STARTS ELSE 0
             ends == IF occurrence.end >= p.start /\ occurrence.end < p.end
                     THEN OCCURRENCE_ENDS ELSE 0
             new_class == OCCURRENCE_SPANS + starts + ends
             occurrence_class ==
                 IF p._use_old_occurence_class_values
                 THEN MAP_TO_OLD_OCCURRENCE_CLASS[new_class] ELSE new_class
         IN  Some([ occurrence |-> occurrence,
                    class |-> occurrence_class,
                    css_class |-> OCCURRENCE_CLASS_CSS[new_class],
                    spans |-> occurrence_class = OCCURRENCE_SPANS,
                    only_starts |-> occurrence_class = OCCURRENCE_STARTS,
                    only_ends |-> occurrence_class = OCCURRENCE_ENDS,
                    starts_ends |-> occurrence_class = OCCURRENCE_STARTS_ENDS ])

RECURSIVE ClassifyAll(_, _)
\* The loop of get_occurrence_partials: the non-None classifications, in order.
ClassifyAll(p, occs) ==
    IF occs = <<>> THEN <<>>
    ELSE LET c == ClassifyOccurrence(p, Head(occs))
         IN  (IF c.some THEN <<c.val>> ELSE <<>>) \o ClassifyAll(p, Tail(occs))

\* Period.get_occurrence_partials: the value.
GetOccurrencePartials(p) == ClassifyAll(p, Occurrences(p))

\* Period.has_occurrences: the value.
HasOccurrences(p) ==
    \E k \in 1..Len(Occurrences(p)) : ClassifyOccurrence(p, Occurrences(p)[k]).some

\* Period.get_time_slot refusing a slot that starts at the period's start.
GetTimeSlotAfterStart(p, start, end) ==
    IF start > p.start /\ end <= p.end
    THEN Some(PeriodInit("Period", p.events, start, end, None({}), None(<<>>)))
    ELSE None(<<>>)

\* Period.get_time_slot
GetTimeSlot(p, start, end) ==
    IF start >= p.start /\ end <= p.end
    THEN Some(PeriodInit("Period", p.events, start, end, None({}), None(<<>>)))
    ELSE None(<<>>)

\* Period.create_sub_period: the child.
CreateSubPeriod(p, cls, start) ==
    NewVariant(cls, p.events, start,
               Some(GetPersistedOccurrences(p)), Some(Occurrences(p)))

\* Period.create_sub_period: the parent after the call.
AfterCreateSubPeriod(p) == AfterOccurrences(AfterGetPersistedOccurrences(p))

-----------------------------------------------------------------------------
(* Actions: one per call a client of periods.py makes. *)

\* The event lists a Period is built over.
EventLists == {<<1>>, <<2, 1>>}

\* The variants create_sub_period and get_periods can build: Year.__init__
\* takes no occurrence pool.
SubVariants == {"Month", "Week", "Day"}

NoGen == [pc |-> "none"]
NoResult == [op |-> "none"]

\* A new object on the heap, with the call that made it.
Push(p, op, src) ==
    /\ periods' = Append(periods, p)
    /\ origin' = Append(origin, [op |-> op, src |-> src])

\* Period(events, start, end)
NewPeriod(events, start, end) ==
    /\ Len(periods) < MaxPeriods
    /\ Push(PeriodInit("Period", events, start, end, None({}), None(<<>>)), "new", 0)
    /\ result' = [op |-> "new", ret |-> Len(periods) + 1]
    /\ UNCHANGED <<fdow, showCancelled, store, gen>>

\* Year(events, date), Month(events, date), Week(events, date), Day(events, date)
NewVariantPeriod(cls, events, date) ==
    /\ Len(periods) < MaxPeriods
    /\ CanBuild(cls, date)
    /\ Push(NewVariant(cls, events, date, None({}), None(<<>>)), "new", 0)
    /\ result' = [op |-> "new", ret |-> Len(periods) + 1]
    /\ UNCHANGED <<fdow, showCancelled, store, gen>>

\* p.next()
CallNext(i) ==
    /\ Len(periods) < MaxPeriods
    /\ periods[i].cls \in Variants
    /\ CanBuild(periods[i].cls, NextDate(periods[i]))
    /\ Push(NextPeriod(periods[i]), "next", i)
    /\ result' = [op |-> "next", p |-> i, ret |-> Len(periods) + 1]
    /\ UNCHANGED <<fdow, showCancelled, store, gen>>

\* p.prev()
CallPrev(i) ==
    /\ Len(periods) < MaxPeriods
    /\ periods[i].cls \in Variants
    /\ CanBuild(periods[i].cls, PrevDate(periods[i]))
    /\ Push(PrevPeriod(periods[i]), "prev", i)
    /\ result' = [op |-> "prev", p |-> i, ret |-> Len(periods) + 1]
    /\ UNCHANGED <<fdow, showCancelled, store, gen>>

\* p.use_new_occurrence_class_values(value)
CallUseNewOccurrenceClassValues(i, value) ==
    /\ periods' = [periods EXCEPT ![i]._use_old_occurence_class_values = ~value]
    /\ result' = [op |-> "use_new", p |-> i]
    /\ UNCHANGED <<fdow, showCancelled, store, origin, gen>>

\* p.classify_occurrence(occurrence); old is the numbering mode of the call.
CallClassifyOccurrence(i, occurrence) ==
    /\ result' = [op |-> "classify", p |-> i, occurrence |-> occurrence,
                  old |-> periods[i]._use_old_occurence_class_values,
                  ret |-> ClassifyOccurrence(periods[i], occurrence)]
    /\ UNCHANGED <<fdow, showCancelled, store, periods, origin, gen>>

\* p.occurrences, p.get_occurrences()
CallGetOccurrences(i) ==
    /\ periods' = [periods EXCEPT ![i] = AfterOccurrences(@)]
    /\ result' = [op |-> "occurrences", p |-> i, occs |-> Occurrences(periods[i])]
    /\ UNCHANGED <<fdow, showCancelled, store, origin, gen>>

\* p.get_occurrence_partials()
CallGetOccurrencePartials(i) ==
    /\ periods' = [periods EXCEPT ![i] = AfterOccurrences(@)]
    /\ result' = [op |-> "partials", p |-> i, occs |-> Occurrences(periods[i]),
                  ret |-> GetOccurrencePartials(periods[i])]
    /\ UNCHANGED <<fdow, showCancelled, store, origin, gen>>

\* p.has_occurrences()
CallHasOccurrences(i) ==
    /\ periods' = [periods EXCEPT ![i] = AfterOccurrences(@)]
    /\ result' = [op |-> "has", p |-> i, occs |-> Occurrences(periods[i]),
                  ret |-> HasOccurrences(periods[i])]
    /\ UNCHANGED <<fdow, showCancelled, store, origin, gen>>

\* p.get_time_slot(start, end)
CallGetTimeSlot(i, start, end) ==
    LET slot == GetTimeSlot(periods[i], start, end)
    IN  /\ Len(periods) < MaxPeriods
        /\ IF slot.some
           THEN /\ Push(slot.val, "slot", i)
                /\ result' = [op |-> "slot", p |-> i, start |-> start, end |-> end,
                              ret |-> Len(periods) + 1]
           ELSE /\ UNCHANGED <<periods, origin>>
                /\ result' = [op |-> "slot", p |-> i, start |-> start, end |-> end,
                              ret |-> 0]
        /\ UNCHANGED <<fdow, showCancelled, store, gen>>

\* p.create_sub_period(cls)
CallCreateSubPeriod(i, cls) ==
    /\ Len(periods) < MaxPeriods
    /\ CanBuild(cls, periods[i].start)
    /\ periods' = Append([periods EXCEPT ![i] = AfterCreateSubPeriod(@)],
                         CreateSubPeriod(periods[i], cls, periods[i].start))
    /\ origin' = Append(origin, [op |-> "sub", src |-> i])
    /\ result' = [op |-> "sub", p |-> i, occs |-> Occurrences(periods[i]),
                  ret |-> Len(periods) + 1]
    /\ UNCHANGED <<fdow, showCancelled, store, gen>>

\* Period(p.events, p.start, p.end, p.get_persisted_occurrences(), p.occurrences)
PeriodFromPool(i) ==
    /\ Len(periods) < MaxPeriods
    /\ periods' = Append([periods EXCEPT ![i] = AfterCreateSubPeriod(@)],
                         PeriodInit("Period", periods[i].events,
                                    periods[i].start, periods[i].end,
                                    Some(GetPersistedOccurrences(periods[i])),
                                    Some(Occurrences(periods[i]))))
    /\ origin' = Append(origin, [op |-> "pool", src |-> i])
    /\ result' = [op |-> "pool", p |-> i, occs |-> Occurrences(periods[i]),
                  ret |-> Len(periods) + 1]
    /\ UNCHANGED <<fdow, showCancelled, store, gen>>

\* The loop test of get_periods, letting in a child that starts at the end.
LoopContinuesToEnd(period, parent) == period.start <= parent.end

\* The loop test of get_periods.
LoopContinues(period, parent) == period.start < parent.end

\* p.get_periods(cls): the generator object; none of its body has run.
CallGetPeriods(i, cls) ==
    /\ gen.pc = "none"
    /\ gen' = [pc |-> "created", parent |-> i, cls |-> cls, yielded |-> 0]
    /\ result' = [op |-> "get_periods", p |-> i]
    /\ UNCHANGED <<fdow, showCancelled, store, periods, origin>>

\* One resumption of the generator of get_periods: up to its next yield, its
\* return, or the exception of a datetime that cannot be built.
GenNext ==
    /\ gen.pc \in {"created", "suspended"}
    /\ LET i == gen.parent
           first == gen.pc = "created"
           date == IF first THEN periods[i].start ELSE NextDate(gen.period)
           parent == IF first THEN AfterCreateSubPeriod(periods[i]) ELSE periods[i]
       IN  IF ~CanBuild(gen.cls, date)
           THEN /\ gen' = [gen EXCEPT !.pc = "raised"]
                /\ result' = [op |-> "gen_next", p |-> i, ret |-> 0]
                /\ periods' = [periods EXCEPT ![i] = parent]
                /\ UNCHANGED origin
           ELSE LET period == IF first
                              THEN CreateSubPeriod(periods[i], gen.cls, date)
                              ELSE NextPeriod(gen.period)
                IN  IF LoopContinues(period, periods[i])
                    THEN /\ periods' =
                              Append([periods EXCEPT
                                         ![i] = AfterCreateSubPeriod(parent)],
                                     CreateSubPeriod(parent, gen.cls, period.start))
                         /\ origin' = Append(origin, [op |-> "yield", src |-> i])
                         /\ gen' = [pc |-> "suspended", parent |-> i,
                                    cls |-> gen.cls, yielded |-> gen.yielded + 1,
                                    period |-> period]
                         /\ result' = [op |-> "gen_next", p |-> i,
                                       occs |-> Occurrences(parent),
                                       ret |-> Len(periods) + 1]
                    ELSE /\ periods' = [periods EXCEPT ![i] = parent]
                         /\ UNCHANGED origin
                         /\ gen' = [pc |-> "done", parent |-> i, cls |-> gen.cls,
                                    yielded |-> gen.yielded, period |-> period]
                         /\ result' = [op |-> "gen_next", p |-> i, ret |-> 0]
    /\ UNCHANGED <<fdow, showCancelled, store>>

\* p.get_persisted_occurrences()
CallGetPersistedOccurrences(i) ==
    /\ periods' = [periods EXCEPT ![i] = AfterGetPersistedOccurrences(@)]
    /\ result' = [op |-> "persisted", p |-> i,
                  ret |-> GetPersistedOccurrences(periods[i])]
    /\ UNCHANGED <<fdow, showCancelled, store, origin, gen>>

\* The store gains an occurrence.
StoreAdd(o) ==
    /\ Len(store) < MaxStore
    /\ \A k \in 1..Len(store) : store[k] # o
    /\ store' = Append(store, o)
    /\ result' = [op |-> "store"]
    /\ UNCHANGED <<fdow, showCancelled, periods, origin, gen>>

-----------------------------------------------------------------------------
(* Sibling navigation: Year, Month, Week and Day periods at every reference *)
(* date, and the siblings next() and prev() build from them.                *)

InitNav ==
    /\ fdow \in 0..6
    /\ showCancelled = FALSE
    /\ store = <<>>
    /\ \E cls \in Variants, date \in Instants :
          periods = <<NewVariant(cls, <<1>>, date, None({}), None(<<>>))>>
    /\ origin = <<[op |-> "new", src |-> 0]>>
    /\ gen = NoGen
    /\ result = NoResult

NextNav ==
    \/ \E i \in 1..Len(periods) : CallNext(i)
    \/ \E i \in 1..Len(periods) : CallPrev(i)

SpecNav == InitNav /\ [][NextNav]_vars

-----------------------------------------------------------------------------
(* Occurrence retrieval: a Period over a short window, the periods derived  *)
(* from it, and a store whose contents change.                              *)

\* How many instants past the first the window of these periods reaches.
MainSpan == 3
\* How many periods are derived from the first one.
MaxDerived == 1

MainWindow == MinInstant..(MinInstant + MainSpan)

\* The occurrences the store may hold: two of different events with the same
\* start and end, one that starts an instant after those end, and a cancelled
\* one with the same start that ends where the third starts.
MainOccs ==
    { Occ(1, MinInstant, MinInstant + 1, FALSE),
      Occ(2, MinInstant, MinInstant + 1, FALSE),
      Occ(1, MinInstant + 2, MinInstant + 3, FALSE),
      Occ(2, MinInstant, MinInstant + 2, TRUE) }

Init ==
    /\ fdow = 0
    /\ showCancelled = FALSE
    /\ store = <<>>
    /\ \E events \in EventLists, start \in MainWindow, end \in MainWindow :
          /\ start < end
          /\ periods = <<PeriodInit("Period", events, start, end, None({}), None(<<>>))>>
    /\ origin = <<[op |-> "new", src |-> 0]>>
    /\ gen = NoGen
    /\ result = NoResult

Next ==
    \/ \E o \in MainOccs : StoreAdd(o)
    \/ \E i \in 1..Len(periods) : CallGetOccurrences(i)
    \/ \E i \in 1..Len(periods) : CallGetOccurrencePartials(i)
    \/ \E i \in 1..Len(periods) : CallHasOccurrences(i)
    \/ \E i \in 1..Len(periods), cls \in SubVariants :
          Len(periods) <= MaxDerived /\ CallCreateSubPeriod(i, cls)
    \/ \E i \in 1..Len(periods) :
          Len(periods) <= MaxDerived /\ PeriodFromPool(i)
    \/ \E i \in 1..Len(periods), cls \in SubVariants : CallGetPeriods(i, cls)
    \/ Len(periods) <= MaxDerived /\ GenNext

Spec == Init /\ [][Next]_vars

SameRange(p, q) == p.start = q.start /\ p.end = q.end

\* Ascending by (start, end).
IsSorted(s) == \A k, l \in 1..Len(s) : k < l => ~OccLess(s[l], s[k])

\* The calls whose result is, or is computed from, the occurrences property.
AccessOps == {"occurrences", "partials", "has", "sub", "pool"}

\* C2: the occurrences of a Period are sorted ascending by (start, end),
\* whether it queried the store or filtered an occurrence pool.
OccurrencesSorted ==
    /\ \A i \in 1..Len(periods) : Cached(periods[i]) => IsSorted(periods[i]._occurrences)
    /\ result.op \in AccessOps => IsSorted(result.occs)

\* A Period built with a pool holds two occurrences in ascending order that
\* the store holds in the opposite order.
PoolPeriodSortedAgainstStore ==
    \E i \in 1..Len(periods) :
        /\ periods[i].occurrence_pool.some
        /\ Cached(periods[i])
        /\ Len(periods[i]._occurrences) = 2
        /\ OccLess(periods[i]._occurrences[1], periods[i]._occurrences[2])
        /\ Len(store) = 2
        /\ store[1] = periods[i]._occurrences[2]
        /\ store[2] = periods[i]._occurrences[1]

\* C6: a Period built with the occurrences of a pool-less Period as its pool,
\* over the same events, start and end, has the occurrences of that Period.
PoolEqualsDirect ==
    \A j \in 1..Len(periods) :
        (/\ origin[j].op = "pool"
         /\ ~periods[origin[j].src].occurrence_pool.some
         /\ Cached(periods[j])) =>
            /\ SameRange(periods[j], periods[origin[j].src])
            /\ periods[j].events = periods[origin[j].src].events
            /\ periods[j].occurrence_pool.val = periods[origin[j].src]._occurrences
            /\ periods[j]._occurrences = periods[origin[j].src]._occurrences

\* Such a Period holds an occurrence that ends at its start and one that
\* starts at its end.
PoolPeriodTouchedAtBothEnds ==
    \E j \in 1..Len(periods) :
        /\ origin[j].op = "pool"
        /\ ~periods[origin[j].src].occurrence_pool.some
        /\ Cached(periods[j])
        /\ \E k, l \in 1..Len(periods[j]._occurrences) :
              /\ periods[j]._occurrences[k].end = periods[j].start
              /\ periods[j]._occurrences[l].start = periods[j].end

\* C10: once a Period's occurrences have been computed, every later access
\* returns that list, the list and the counts of store queries and pool
\* filterings stay as they are whatever the store becomes, and a Period never
\* queries the store more than once per event or filters its pool twice.
CacheIsSingleShot ==
    /\ [](\A i \in 1..Len(periods) :
             /\ periods[i].nStoreQueries <= Len(periods[i].events)
             /\ periods[i].nPoolFilters <= 1
             /\ periods[i].nStoreQueries + periods[i].nPoolFilters > 0
                    => Cached(periods[i]))
    /\ [][\A i \in 1..Len(periods) :
             Cached(periods[i]) =>
                 /\ Cached(periods'[i])
                 /\ periods'[i]._occurrences = periods[i]._occurrences
                 /\ periods'[i].nStoreQueries = periods[i].nStoreQueries
                 /\ periods'[i].nPoolFilters = periods[i].nPoolFilters
                 /\ (/\ \/ result'.op \in AccessOps
                         \/ (result'.op = "gen_next" /\ result'.ret # 0)
                      /\ result'.p = i)
                        => result'.occs = periods[i]._occurrences]_vars

\* A Period was asked for its occurrences again after the store changed: it
\* returned its list, which is no longer what the store would answer.
StaleListReturned ==
    /\ result.op = "occurrences"
    /\ Cached(periods[result.p])
    /\ result.occs = periods[result.p]._occurrences
    /\ result.occs # GetSortedOccurrences(periods[result.p])
    /\ ~periods[result.p].occurrence_pool.some
    /\ periods[result.p].nStoreQueries = Len(periods[result.p].events)

-----------------------------------------------------------------------------
(* Time slots: a Period over a short window, whose occurrences may have     *)
(* been computed, and the slots carved from it.                             *)

NextSlot ==
    \/ \E o \in MainOccs : StoreAdd(o)
    \/ \E i \in 1..Len(periods) : CallGetOccurrences(i)
    \/ \E i \in 1..Len(periods), start \in MainWindow, end \in MainWindow :
          start <= end /\ Len(periods) <= MaxDerived /\ CallGetTimeSlot(i, start, end)

SpecSlot == Init /\ [][NextSlot]_vars

\* C9: get_time_slot(s, e) on p returns a Period exactly when s >= p.start and
\* e <= p.end, and None otherwise; the Period returned is a plain Period with
\* start s, end e and p's events, with no occurrence pool, no persisted
\* occurrences and nothing computed; the call leaves p and every other Period
\* as they were.
TimeSlotContract ==
    [][result'.op = "slot" =>
          LET p == periods[result'.p]
              inside == result'.start >= p.start /\ result'.end <= p.end
          IN  /\ inside <=> result'.ret # 0
              /\ SubSeq(periods', 1, Len(periods)) = periods
              /\ ~inside => periods' = periods
              /\ inside =>
                    /\ result'.ret = Len(periods) + 1
                    /\ Len(periods') = Len(periods) + 1
                    /\ periods'[result'.ret] =
                          [ cls |-> "Period",
                            start |-> result'.start,
                            end |-> result'.end,
                            events |-> p.events,
                            occurrence_pool |-> [some |-> FALSE, val |-> <<>>],
                            attrs |-> {},
                            _persisted_occurrences |-> {},
                            _occurrences |-> <<>>,
                            _use_old_occurence_class_values |-> TRUE,
                            nStoreQueries |-> 0,
                            nPoolFilters |-> 0,
                            nPersistedQueries |-> 0 ]]_vars

\* A slot was carved, from the period's own start, out of a Period that holds
\* computed occurrences, and the slot has since queried the store itself.
SlotCarvedFromCachedPeriod ==
    \E j \in 1..Len(periods) :
        /\ origin[j].op = "slot"
        /\ periods[j].start = periods[origin[j].src].start
        /\ periods[j].end < periods[origin[j].src].end
        /\ Cached(periods[origin[j].src])
        /\ periods[origin[j].src]._occurrences # <<>>
        /\ Cached(periods[j])
        /\ periods[j].nStoreQueries = Len(periods[j].events)
        /\ periods[j]._occurrences # periods[origin[j].src]._occurrences

-----------------------------------------------------------------------------
(* Sub-period iteration: a Year, Month, Week or Day at every reference date, *)
(* or a plain Period over a short window, and one get_periods generator      *)
(* over it, resumed until it returns.  A Year remembers the month of the     *)
(* reference date it was built from.                                         *)

InitIter ==
    /\ fdow \in 0..6
    /\ showCancelled = FALSE
    /\ store = <<>>
    /\ \/ \E cls \in Variants, date \in Instants :
             /\ periods = <<NewVariant(cls, <<1>>, date, None({}), None(<<>>))>>
             /\ origin = <<[op |-> "new", src |-> 0,
                            month |-> IF cls = "Year" THEN MonthOf(date) ELSE 0]>>
       \/ \E start \in MainWindow, end \in MainWindow :
             /\ start < end
             /\ periods = <<PeriodInit("Period", <<1>>, start, end, None({}), None(<<>>))>>
             /\ origin = <<[op |-> "new", src |-> 0, month |-> 0]>>
    /\ gen = NoGen
    /\ result = NoResult

NextIter ==
    \/ \E cls \in SubVariants : CallGetPeriods(1, cls)
    \/ GenNext

SpecIter == InitIter /\ [][NextIter]_vars

\* C3: iterating get_periods(variant) over a period with start < end ends
\* after finitely many children: no resumption raises, each one yields a child
\* that starts later than the one before or returns, and there are never more
\* children than the parent has whole days, plus two (a parent may begin and
\* end in the middle of a day).  The children's starts
\* strictly increase and lie before the parent's end, and the sibling next()
\* builds from the last child starts at or after the parent's end.
IterationTerminates ==
    /\ [](gen.pc # "none" =>
            LET parent == periods[gen.parent]
            IN  /\ gen.pc # "raised"
                /\ Len(periods) = gen.yielded + 1
                /\ gen.yielded <= (parent.end - parent.start) \div TicksPerDay + 2
                /\ \A j \in 2..Len(periods) :
                      /\ origin[j].op = "yield"
                      /\ periods[j].cls = gen.cls
                      /\ periods[j].start < parent.end
                      /\ j > 2 => periods[j - 1].start < periods[j].start
                /\ gen.pc = "done" =>
                      /\ gen.yielded >= 1
                      /\ gen.period.start >= parent.end
                      /\ gen.period.start = NextPeriod(periods[Len(periods)]).start
                      /\ origin[Len(periods)].op = "yield")
    /\ [][gen' # gen =>
             /\ gen.pc = "none" => gen'.pc = "created"
             /\ gen.pc = "created" => gen'.pc \in {"suspended", "done"}
             /\ gen.pc = "suspended" =>
                    /\ gen'.pc \in {"suspended", "done"}
                    /\ gen'.period.start > gen.period.start
             /\ gen'.pc = "suspended" =>
                    /\ gen'.yielded = gen.yielded + 1
                    /\ SameRange(periods'[Len(periods')], gen'.period)
             /\ gen'.pc = "done" => gen'.yielded = gen.yielded
             /\ gen.pc # "done"]_vars

\* A Month was iterated by Week to the end: five or six weeks were yielded.
MonthWeeksIterated ==
    /\ gen.pc = "done"
    /\ periods[gen.parent].cls = "Month"
    /\ gen.cls = "Week"
    /\ gen.yielded >= 5
    /\ periods[Len(periods)].end > periods[gen.parent].end

\* The first child the generator yielded.
FirstChild == periods[2]

\* C4 as stated: the first child yielded starts at the parent's start.
FirstChildStartsAtParentStart ==
    gen.pc \in {"suspended", "done"} => FirstChild.start = periods[gen.parent].start

\* C4: the first child yielded is the child period the parent's start lies
\* in: it starts at or before the parent's start and ends after it.  It starts
\* at the parent's start for the months of a Year and for the days of a Year,
\* Month or Week; a first Week starts on the configured first day of the week,
\* less than seven days before the parent's start.
FirstChildHoldsParentStart ==
    gen.pc \in {"suspended", "done"} =>
        LET parent == periods[gen.parent]
        IN  /\ origin[2].op = "yield"
            /\ FirstChild.start <= parent.start
            /\ parent.start < FirstChild.end
            /\ (parent.cls = "Year" /\ gen.cls = "Month") => FirstChild.start = parent.start
            /\ (parent.cls \in Variants /\ gen.cls = "Day") => FirstChild.start = parent.start
            /\ gen.cls = "Week" =>
                  /\ IsoWeekday(FirstChild.start) % 7 = fdow
                  /\ FirstChild.start % TicksPerDay = 0
                  /\ parent.start - FirstChild.start < Days(7)

\* Month.get_weeks() yielded a first Week that starts before the Month.
FirstWeekBeforeMonth ==
    /\ gen.pc \in {"suspended", "done"}
    /\ periods[gen.parent].cls = "Month"
    /\ gen.cls = "Week"
    /\ FirstChild.start < periods[gen.parent].start
    /\ FirstChild.end > periods[gen.parent].start

\* C8: get_months() of a Year built from a date of year Y yields the twelve
\* Months of Y in order: the m-th starts at midnight of the first day of month
\* m, each ends where the next starts, and the last ends at the year's end.
YearHasTwelveMonths ==
    (gen.pc # "none" /\ periods[gen.parent].cls = "Year" /\ gen.cls = "Month") =>
        LET year == periods[gen.parent]
            Y == YearOf(year.start)
        IN  /\ origin[gen.parent].month \in 1..12
            /\ gen.yielded <= 12
            /\ gen.pc = "done" => gen.yielded = 12
            /\ \A m \in 1..gen.yielded :
                  /\ origin[m + 1].op = "yield"
                  /\ periods[m + 1].cls = "Month"
                  /\ periods[m + 1].start = ToOrdinal(Y, m, 1) * TicksPerDay
                  /\ m < gen.yielded => periods[m + 1].end = periods[m + 2].start
                  /\ m = 12 => periods[m + 1].end = year.end

\* A Year built from a date in April was iterated by Month to the end.
YearFromAprilIterated ==
    /\ gen.pc = "done"
    /\ periods[gen.parent].cls = "Year"
    /\ gen.cls = "Month"
    /\ origin[gen.parent].month = 4
    /\ gen.yielded = 12

-----------------------------------------------------------------------------
(* A week's days: a Week whose store holds one shown occurrence, the Day     *)
(* periods of get_days(), and each Day asked, in the new numbering, what it  *)
(* holds.                                                                    *)

\* The reference date of the Week: the 13th of January of the first year.
WeekDate == MkDatetime(FirstYear, 1, 13)

\* The instants the occurrence may start and end at: the days the Week can
\* cover, and an instant on either side.
WeekWindow == (WeekDate - Days(6) - 1)..(WeekDate + Days(7))

InitWeek ==
    /\ fdow \in {0, 1}
    /\ showCancelled \in BOOLEAN
    /\ \E start \in WeekWindow, end \in WeekWindow :
          /\ start <= end
          /\ store = <<Occ(1, start, end, showCancelled)>>
    /\ periods = <<NewVariant("Week", <<1>>, WeekDate, None({}), None(<<>>))>>
    /\ origin = <<[op |-> "new", src |-> 0]>>
    /\ gen = NoGen
    /\ result = NoResult

\* The Day the generator yielded last.
LastDay == periods[Len(periods)]

\* The walk of the test: each Day is switched to the new numbering, then asked
\* for what it holds, and only then is the next Day taken from the generator.
NextWeek ==
    \/ CallGetPeriods(1, "Day")
    \/ (Len(periods) > 1 => Cached(LastDay)) /\ GenNext
    \/ /\ Len(periods) > 1
       /\ LastDay._use_old_occurence_class_values
       /\ CallUseNewOccurrenceClassValues(Len(periods), TRUE)
    \/ /\ Len(periods) > 1
       /\ ~LastDay._use_old_occurence_class_values
       /\ CallHasOccurrences(Len(periods))
    \/ /\ Len(periods) > 1
       /\ ~LastDay._use_old_occurence_class_values
       /\ CallGetOccurrencePartials(Len(periods))

SpecWeek == InitWeek /\ [][NextWeek]_vars

\* C7: a Day of the week classifies the occurrence exactly when the
\* occurrence starts in it, ends in it or passes through it, that is when the
\* Day's date lies from the date of the occurrence's start to the date of its
\* end; an occurrence that starts and ends on one date is STARTS_ENDS on that
\* Day, and one over several dates is STARTS on the Day of its start, SPANS on
\* the Days between and ENDS on the Day of its end.
DaysClassifyByDate ==
    (/\ result.op = "partials"
     /\ origin[result.p].op = "yield"
     /\ ~periods[result.p]._use_old_occurence_class_values) =>
        LET day == DateOf(periods[result.p].start)
            first == DateOf(store[1].start)
            last == DateOf(store[1].end)
        IN  /\ result.ret # <<>> <=> (first <= day /\ day <= last)
            /\ result.ret # <<>> =>
                  /\ Len(result.ret) = 1
                  /\ result.ret[1].occurrence = store[1]
                  /\ result.ret[1].class =
                        CASE first = day /\ last = day -> OCCURRENCE_STARTS_ENDS
                          [] first = day /\ last > day -> OCCURRENCE_STARTS
                          [] first < day /\ last = day -> OCCURRENCE_ENDS
                          [] OTHER -> OCCURRENCE_SPANS

-----------------------------------------------------------------------------
(* Properties of sibling navigation. *)

\* C5: for every Year, Month, Week and Day period p whose siblings can be
\* built, p.next() starts where p ends, and p.next().prev() has the start and
\* the end of p; December's next month is January of the following year.
NextPrevRoundTrip ==
    \A j \in 1..Len(periods) :
        origin[j].op = "next" =>
            /\ periods[j].start = periods[origin[j].src].end
            /\ periods[j].cls = periods[origin[j].src].cls
            /\ \A k \in 1..Len(periods) :
                  (origin[k].op = "prev" /\ origin[k].src = j) =>
                      SameRange(periods[k], periods[origin[j].src])

\* A December whose next().prev() was built, across the year's end.
DecemberRoundTrip ==
    \E j, k \in 1..Len(periods) :
        /\ origin[j].op = "next"
        /\ origin[k].op = "prev" /\ origin[k].src = j
        /\ periods[origin[j].src].cls = "Month"
        /\ MonthOf(periods[origin[j].src].start) = 12
        /\ MonthOf(periods[j].start) = 1
        /\ YearOf(periods[j].start) = YearOf(periods[origin[j].src].start) + 1

-----------------------------------------------------------------------------
(* Classification: one Period over every range of a short window, and every *)
(* occurrence of that window classified against it in both numberings.      *)

\* How many instants past the first the classification window reaches.
ClassifySpan == 4

ClassifyWindow == MinInstant..(MinInstant + ClassifySpan)

InitClassify ==
    /\ fdow = 0
    /\ showCancelled \in BOOLEAN
    /\ store = <<>>
    /\ \E start \in ClassifyWindow, end \in ClassifyWindow :
          /\ start <= end
          /\ periods = <<PeriodInit("Period", <<1>>, start, end, None({}), None(<<>>))>>
    /\ origin = <<[op |-> "new", src |-> 0]>>
    /\ gen = NoGen
    /\ result = NoResult

NextClassify ==
    \/ \E value \in BOOLEAN : CallUseNewOccurrenceClassValues(1, value)
    \/ \E start \in ClassifyWindow, end \in ClassifyWindow, cancelled \in BOOLEAN :
          /\ start <= end
          /\ CallClassifyOccurrence(1, Occ(1, start, end, cancelled))

SpecClassify == InitClassify /\ [][NextClassify]_vars

\* The legacy number of a class: SPANS->2, STARTS->0, ENDS->3, STARTS_ENDS->1.
LegacyNumber(n) == CASE n = 0 -> 2 [] n = 1 -> 0 [] n = 2 -> 3 [] n = 3 -> 1

SpansCoversWindow ==
    (/\ result.op = "classify"
     /\ periods[result.p].start < periods[result.p].end
     /\ ~result.old
     /\ result.ret.some
     /\ result.ret.val.class = OCCURRENCE_SPANS)
    => /\ result.occurrence.start < periods[result.p].start
       /\ result.occurrence.end >= periods[result.p].end

\* The flags of a classification that are true.
TrueFlags(c) ==
    {f \in {"spans", "only_starts", "only_ends", "starts_ends"} :
        CASE f = "spans" -> c.spans
          [] f = "only_starts" -> c.only_starts
          [] f = "only_ends" -> c.only_ends
          [] f = "starts_ends" -> c.starts_ends}

\* The flag that goes with a default css label.
FlagOfCss(css) ==
    CASE css = "spans" -> "spans"
      [] css = "starts" -> "only_starts"
      [] css = "ends" -> "only_ends"
      [] css = "starts_ends" -> "starts_ends"

\* C13 as stated: in both numberings exactly one flag of a classification is
\* true, and it is the one that goes with css_class.
FlagsAgreeWithCss ==
    (result.op = "classify" /\ result.ret.some) =>
        TrueFlags(result.ret.val) = {FlagOfCss(result.ret.val.css_class)}

-----------------------------------------------------------------------------
(* Persisted occurrences: a Period, the children it builds, and calls of     *)
(* get_persisted_occurrences on any of them while the store grows.           *)

NextPersisted ==
    \/ \E o \in MainOccs : StoreAdd(o)
    \/ \E i \in 1..Len(periods) : CallGetPersistedOccurrences(i)
    \/ \E i \in 1..Len(periods), cls \in SubVariants :
          Len(periods) <= MaxDerived /\ CallCreateSubPeriod(i, cls)

SpecPersisted == Init /\ [][NextPersisted]_vars

\* The periods built with parent_persisted_occurrences.
BuiltWithPersisted(i) == origin[i].op \in {"sub", "pool", "yield"}

\* C11 as stated: get_persisted_occurrences is memoized per Period.  No Period
\* queries the persisted store more than once, a Period built with
\* parent_persisted_occurrences never queries it, and a call on a Period that
\* holds a value (from an earlier call or from its constructor) returns that
\* value.
PersistedMemoized ==
    /\ [](\A i \in 1..Len(periods) :
            /\ periods[i].nPersistedQueries <= 1
            /\ BuiltWithPersisted(i) => periods[i].nPersistedQueries = 0)
    /\ [][result'.op = "persisted" =>
             LET q == periods[result'.p]
             IN  "_persisted_occurrences" \in q.attrs =>
                    result'.ret = q._persisted_occurrences]_vars

-----------------------------------------------------------------------------
(* Children and the store: a Month over a store of one occurrence that lies  *)
(* about the month's first instant, and the Weeks or Days built from it,     *)
(* each asked for its occurrences before the next is taken.                  *)

\* The reference date of the Month: the first of February of the first year.
PoolDate == MkDatetime(FirstYear, 2, 1)

\* The instants the occurrence may start and end at: the four days before the
\* month and its first day.
PoolWindow == (PoolDate - Days(4))..(PoolDate + Days(1))

InitPool ==
    /\ fdow \in {0, 1}
    /\ showCancelled = FALSE
    /\ \E start \in PoolWindow, end \in PoolWindow :
          /\ start <= end
          /\ store = <<Occ(1, start, end, FALSE)>>
    /\ periods = <<NewVariant("Month", <<1>>, PoolDate, None({}), None(<<>>))>>
    /\ origin = <<[op |-> "new", src |-> 0]>>
    /\ gen = NoGen
    /\ result = NoResult

NextPool ==
    \/ \E cls \in {"Week", "Day"} :
          Len(periods) = 1 /\ gen.pc = "none" /\ CallCreateSubPeriod(1, cls)
    \/ \E cls \in {"Week", "Day"} : Len(periods) = 1 /\ CallGetPeriods(1, cls)
    \/ (Len(periods) > 1 => Cached(periods[Len(periods)])) /\ GenNext
    \/ Len(periods) > 1 /\ CallGetOccurrences(Len(periods))

SpecPool == InitPool /\ [][NextPool]_vars

\* The period p would be had it been built without an occurrence pool.
PoolLess(p) == [p EXCEPT !.occurrence_pool = None(<<>>)]

\* C14 as stated: the occurrences of a child built by create_sub_period or
\* get_periods, filtered from its parent's list, are the occurrences a
\* pool-less period over the child's start and end gets from the store.
ChildEqualsDirect ==
    \A i \in 2..Len(periods) :
        (origin[i].op \in {"sub", "yield"} /\ Cached(periods[i])) =>
            periods[i]._occurrences = GetSortedOccurrences(PoolLess(periods[i]))

====
